---- MODULE Spec2Model ----
(***************************************************************************)
(* A model of the elma crate: the format primitives of src/src/lib.rs      *)
(* (trim_string, string_null_pad, time_format) and the replay codec of     *)
(* src/src/rec.rs (Replay::load, Replay::save, Replay::get_time_ms).       *)
(*                                                                         *)
(* Bytes are the integers 0..255, byte strings and files are sequences of  *)
(* bytes, a Rust String is the sequence of its UTF-8 bytes.  A Result is a *)
(* record tagged "Ok" or "Err"; a panic (an out-of-range split_at) is a    *)
(* record tagged "Panic".                                                  *)
(***************************************************************************)
EXTENDS Integers, Sequences, FiniteSets, TLC

VARIABLES
    data,       \* lib.rs: the byte string handed to trim_string / string_null_pad
    pad,        \* lib.rs: the width handed to string_null_pad
    padded,     \* lib.rs: the result of string_null_pad(data, pad)
    trimmed,    \* lib.rs: the result of the last trim_string call
    trimArg,    \* lib.rs: the bytes the last trim_string call was given
    time,       \* lib.rs: the i32 handed to time_format
    formatted,  \* lib.rs: the result of time_format(time)
    file,       \* rec.rs: the bytes of the replay file on disk
    tampered,   \* rec.rs: what was done to the file before it was loaded
    loaded,     \* rec.rs: the result of Replay::load (Ok, Err or Panic)
    replay,     \* rec.rs: the Replay the caller holds
    saved,      \* rec.rs: the result of Replay::save, with the bytes written
    timeMs,     \* rec.rs: the result and the locals of Replay::get_time_ms
    dest,       \* rec.rs: the content of the file that save writes to
    saved_2,    \* rec.rs: the result of a second save of the same Replay
    given,      \* rec.rs: the frames or events handed to write_frames / write_events
    written,    \* rec.rs: the bytes write_frames / write_events returned
    parsed      \* rec.rs: the result of parse_frames / parse_events on written

strVars == <<data, pad, padded, trimmed, trimArg>>

timeVars == <<time, formatted>>

recVars == <<file, tampered, loaded, replay, saved, timeMs>>

saveVars == <<dest, saved_2>>

codecVars == <<given, written, parsed>>

vars == <<strVars, timeVars, recVars, saveVars, codecVars>>

----------------------------------------------------------------------------
(* Results *)

Ok(v) == [tag |-> "Ok", val |-> v]

Err(kind, arg) == [tag |-> "Err", kind |-> kind, arg |-> arg]

NoResult == [tag |-> "None"]

\* A panic: split_at with an index past the end of the slice.
Panic == [tag |-> "Panic"]

\* No Replay is held.
NoReplay == [tag |-> "NoReplay"]

\* The file is as it was generated.
NoTamper == [kind |-> "none", pos |-> 0, byte |-> 0]

\* No file at the path that save writes to.
NoFile == [tag |-> "NoFile"]

\* The file at the path that save writes to holds bytes.
FileOf(bytes) == [tag |-> "File", val |-> bytes]

IsOk(r) == r.tag = "Ok"

IsErr(r, kind) == r.tag = "Err" /\ r.kind = kind

----------------------------------------------------------------------------
(* Bounds of the model *)

\* Longest byte string handed to the string primitives.
MaxStrLen == 3

\* Largest width handed to string_null_pad.
MaxPad == 4

\* time_format is applied to every time in 0..MaxSmallTime (and to TimeSamples).
MaxSmallTime == 2000

----------------------------------------------------------------------------
(* Helpers on sequences *)

Range(s) == { s[i] : i \in 1..Len(s) }

Min(a, b) == IF a < b THEN a ELSE b

Max(a, b) == IF a > b THEN a ELSE b

Zeros(n) == [i \in 1..n |-> 0]

\* All sequences over S of length 0..n.
SeqsUpTo(S, n) == UNION { [1..k -> S] : k \in 0..n }

\* The index of the first element of s equal to x, or Len(s)+1 when there is none.
FirstIndexOf(s, x) ==
    LET hits == { i \in 1..Len(s) : s[i] = x }
    IN  IF hits = {} THEN Len(s) + 1
        ELSE CHOOSE i \in hits : \A j \in hits : i <= j

----------------------------------------------------------------------------
(* String::from_utf8 (std), as used by trim_string and time_format *)

IsCont(b) == b >= 128 /\ b <= 191

\* The number of bytes of the well-formed UTF-8 sequence that starts at s[i],
\* or 0 when no well-formed sequence starts there.
Utf8SeqLen(s, i) ==
    LET b0 == s[i]
        has(k) == i + k <= Len(s)
        second(lo, hi) == has(1) /\ s[i+1] >= lo /\ s[i+1] <= hi
        cont(k) == has(k) /\ IsCont(s[i+k])
    IN  IF b0 < 128 THEN 1
        ELSE IF b0 >= 194 /\ b0 <= 223 THEN (IF cont(1) THEN 2 ELSE 0)
        ELSE IF b0 = 224 THEN (IF second(160, 191) /\ cont(2) THEN 3 ELSE 0)
        ELSE IF (b0 >= 225 /\ b0 <= 236) \/ b0 = 238 \/ b0 = 239
             THEN (IF second(128, 191) /\ cont(2) THEN 3 ELSE 0)
        ELSE IF b0 = 237 THEN (IF second(128, 159) /\ cont(2) THEN 3 ELSE 0)
        ELSE IF b0 = 240 THEN (IF second(144, 191) /\ cont(2) /\ cont(3) THEN 4 ELSE 0)
        ELSE IF b0 >= 241 /\ b0 <= 243
             THEN (IF second(128, 191) /\ cont(2) /\ cont(3) THEN 4 ELSE 0)
        ELSE IF b0 = 244 THEN (IF second(128, 143) /\ cont(2) /\ cont(3) THEN 4 ELSE 0)
        ELSE 0

\* Utf8Error::valid_up_to counted from index i: the number of leading bytes of s
\* that are well-formed UTF-8 (Len(s) when all of s is).
RECURSIVE Utf8ValidFrom(_, _)
Utf8ValidFrom(s, i) ==
    IF i > Len(s) THEN Len(s)
    ELSE LET w == Utf8SeqLen(s, i)
         IN  IF w = 0 THEN i - 1 ELSE Utf8ValidFrom(s, i + w)

Utf8ValidUpTo(s) == Utf8ValidFrom(s, 1)

\* A faulty variant: every byte above 0x7F is refused, as by an ASCII check.
FromUtf8_ascii(bytes) ==
    IF \A i \in 1..Len(bytes) : bytes[i] < 128 THEN Ok(bytes)
    ELSE Err("NonASCII", 0)

\* String::from_utf8(bytes)?, the error converted by From<FromUtf8Error>.
FromUtf8(bytes) ==
    IF Utf8ValidUpTo(bytes) = Len(bytes) THEN Ok(bytes)
    ELSE Err("StringFromUtf8", Utf8ValidUpTo(bytes))

----------------------------------------------------------------------------
(* lib.rs: trim_string *)

\* A faulty variant: the terminating 0x00 is kept.
TakeWhileNonZero_inclusive(bytes) == SubSeq(bytes, 1, Min(Len(bytes), FirstIndexOf(bytes, 0)))

\* data.into_iter().take_while(|&&d| d != 0).cloned().collect()
TakeWhileNonZero(bytes) == SubSeq(bytes, 1, FirstIndexOf(bytes, 0) - 1)

trim_string(bytes) == FromUtf8(TakeWhileNonZero(bytes))

----------------------------------------------------------------------------
(* lib.rs: string_null_pad *)

is_ascii(bytes) == \A i \in 1..Len(bytes) : bytes[i] < 128

\* A faulty variant: the operands of the deficit swapped.
string_null_pad_swapped(name, width) ==
    IF ~is_ascii(name) THEN Err("NonASCII", 0)
    ELSE IF Len(name) > width THEN Err("PaddingTooShort", Len(name) - width)
    ELSE Ok([i \in 1..width |-> IF i <= Len(name) THEN name[i] ELSE 0])

string_null_pad(name, width) ==
    IF ~is_ascii(name) THEN Err("NonASCII", 0)
    ELSE IF Len(name) > width THEN Err("PaddingTooShort", width - Len(name))
    ELSE Ok([i \in 1..width |-> IF i <= Len(name) THEN name[i] ELSE 0])

----------------------------------------------------------------------------
(* lib.rs: time_format *)

\* The decimal digits of n >= 0 as ASCII bytes, most significant first.
RECURSIVE DecDigits(_)
DecDigits(n) ==
    IF n < 10 THEN <<48 + n>>
    ELSE Append(DecDigits(n \div 10), 48 + (n % 10))

\* i32::to_string().into_bytes()
ToStringBytes(t) == IF t < 0 THEN <<45>> \o DecDigits(0 - t) ELSE DecDigits(t)

\* String::from("00:00,00").into_bytes()
TimeTemplate == <<48, 48, 58, 48, 48, 44, 48, 48>>

\* String::from("59:59,99")
MaxTimeString == <<53, 57, 58, 53, 57, 44, 57, 57>>

\* A faulty variant: the index always steps by one, so digits land on ':' and ','.
RECURSIVE TimeLoop_step1(_, _, _, _)
TimeLoop_step1(t, k, n, f) ==
    IF k = Len(t) THEN FromUtf8(f)
    ELSE LET byte == t[Len(t) - k]
         IN  IF (n = 3 \/ n = 0) /\ byte > 53 THEN Err("InvalidTimeFormat", 0)
             ELSE TimeLoop_step1(t, k + 1, IF n > 0 THEN n - 1 ELSE n,
                                 [f EXCEPT ![n + 1] = byte])

\* One pass of the loop body of time_format over the bytes of the time, last
\* byte first.  k counts the bytes already placed, n is the (0-based) index
\* the next byte goes to, f the string being built.
RECURSIVE TimeLoop(_, _, _, _)
TimeLoop(t, k, n, f) ==
    IF k = Len(t) THEN FromUtf8(f)
    ELSE LET byte == t[Len(t) - k]
         IN  IF (n = 3 \/ n = 0) /\ byte > 53 THEN Err("InvalidTimeFormat", 0)
             ELSE TimeLoop(t, k + 1,
                           IF n = 6 \/ n = 3 THEN n - 2 ELSE IF n > 0 THEN n - 1 ELSE n,
                           [f EXCEPT ![n + 1] = byte])

\* A faulty variant: the clamp taken from six characters on.
time_format_clamp6(t) ==
    LET bytes == ToStringBytes(t)
    IN  IF Len(bytes) > 5 THEN Ok(MaxTimeString)
        ELSE TimeLoop(bytes, 0, 7, TimeTemplate)

time_format(t) ==
    LET bytes == ToStringBytes(t)
    IN  IF Len(bytes) > 6 THEN Ok(MaxTimeString)
        ELSE TimeLoop(bytes, 0, 7, TimeTemplate)

----------------------------------------------------------------------------
(* byteorder: little-endian scalars.  An i16 or i32 is an integer.  A u32,  *)
(* an f32 and an f64 are held as their bit pattern, a sequence of bytes     *)
(* with the most significant byte first (the integers of TLC are 32-bit     *)
(* signed, and read_f32/read_f64 are from_bits of the little-endian word).  *)

Take(s, n) == SubSeq(s, 1, n)

Drop(s, n) == SubSeq(s, n + 1, Len(s))

Reverse(s) == [i \in 1..Len(s) |-> s[Len(s) + 1 - i]]

RECURSIVE Flatten(_)
Flatten(ss) == IF ss = <<>> THEN <<>> ELSE Head(ss) \o Flatten(Tail(ss))

ReadU16(s) == s[1] + 256 * s[2]

\* A faulty variant: the two bytes read as an unsigned number.
ReadI16_unsigned(s) == ReadU16(s)

ReadI16(s) == IF ReadU16(s) >= 32768 THEN ReadU16(s) - 65536 ELSE ReadU16(s)

ReadI32(s) ==
    s[1] + 256 * s[2] + 65536 * s[3]
         + 16777216 * (IF s[4] >= 128 THEN s[4] - 256 ELSE s[4])

\* read_u32 / read_f32 (n = 4) and read_f64 (n = 8)
ReadBits(s, n) == Reverse(Take(s, n))

WriteI16(v) == <<v % 256, (v \div 256) % 256>>

\* write_i32, and write_u32 of a value below 2^31
WriteI32(v) == <<v % 256, (v \div 256) % 256, (v \div 65536) % 256, (v \div 16777216) % 256>>

\* write_u32 / write_f32 / write_f64 of a bit pattern
WriteBits(bits) == Reverse(bits)

\* Magic arbitrary number to signify end of replay file: 0x00492F75.
EOR == 4796277

----------------------------------------------------------------------------
(* rec.rs: the Replay struct and its parts *)

TouchEvent(info) == [kind |-> "Touch", index |-> info]

GroundEvent(alt) == [kind |-> "Ground", alternative |-> alt]

TurnEvent == [kind |-> "Turn"]

VoltRightEvent == [kind |-> "VoltRight"]

VoltLeftEvent == [kind |-> "VoltLeft"]

\* Frame::new()
NewFrame ==
    [bike_x |-> <<0, 0, 0, 0>>, bike_y |-> <<0, 0, 0, 0>>,
     left_x |-> 0, left_y |-> 0, right_x |-> 0, right_y |-> 0,
     head_x |-> 0, head_y |-> 0, rotation |-> 0,
     left_wheel_rotation |-> 0, right_wheel_rotation |-> 0,
     throttle |-> FALSE, right |-> FALSE, volume |-> 0]

\* Replay::new(), with the random link given.
NewReplay(link) ==
    [tag |-> "Replay", raw |-> <<>>, multi |-> FALSE, flag_tag |-> FALSE,
     link |-> link, level |-> <<>>,
     frames |-> <<>>, events |-> <<>>, frames_2 |-> <<>>, events_2 |-> <<>>]

----------------------------------------------------------------------------
(* rec.rs: parse_frames *)

\* Frame i (0-based) of frame_count frames, its fields read from the 13
\* columns that the split_at calls cut out of frame_data one after another.
ParseFrame(frame_data, frame_count, i) ==
    LET n == frame_count
        bike_x == Take(frame_data, 4 * n)
        rem1 == Drop(frame_data, 4 * n)
        bike_y == Take(rem1, 4 * n)
        rem2 == Drop(rem1, 4 * n)
        left_x == Take(rem2, 2 * n)
        rem3 == Drop(rem2, 2 * n)
        left_y == Take(rem3, 2 * n)
        rem4 == Drop(rem3, 2 * n)
        right_x == Take(rem4, 2 * n)
        rem5 == Drop(rem4, 2 * n)
        right_y == Take(rem5, 2 * n)
        rem6 == Drop(rem5, 2 * n)
        head_x == Take(rem6, 2 * n)
        rem7 == Drop(rem6, 2 * n)
        head_y == Take(rem7, 2 * n)
        rem8 == Drop(rem7, 2 * n)
        rotation == Take(rem8, 2 * n)
        rem9 == Drop(rem8, 2 * n)
        left_rotation == Take(rem9, n)
        rem10 == Drop(rem9, n)
        right_rotation == Take(rem10, n)
        rem11 == Drop(rem10, n)
        dat == Take(rem11, n)
        rem12 == Drop(rem11, n)
        volume == Take(rem12, 2 * n)
        d == dat[i + 1]
    IN  [bike_x |-> ReadBits(Drop(bike_x, 4 * i), 4),
         bike_y |-> ReadBits(Drop(bike_y, 4 * i), 4),
         left_x |-> ReadI16(Drop(left_x, 2 * i)),
         left_y |-> ReadI16(Drop(left_y, 2 * i)),
         right_x |-> ReadI16(Drop(right_x, 2 * i)),
         right_y |-> ReadI16(Drop(right_y, 2 * i)),
         head_x |-> ReadI16(Drop(head_x, 2 * i)),
         head_y |-> ReadI16(Drop(head_y, 2 * i)),
         rotation |-> ReadI16(Drop(rotation, 2 * i)),
         left_wheel_rotation |-> left_rotation[i + 1],
         right_wheel_rotation |-> right_rotation[i + 1],
         throttle |-> (d % 2 # 0),
         right |-> ((d \div 2) % 2 # 0),
         volume |-> ReadI16(Drop(volume, 2 * i))]

\* parse_frames(frame_data, frame_count).  A negative frame_count is a huge
\* usize, and a split_at past the end of its slice panics: the last of the 13
\* splits needs 27 * frame_count bytes in all.
ParseFrames(frame_data, frame_count) ==
    IF frame_count < 0 \/ frame_count > Len(frame_data)
                       \/ 27 * frame_count > Len(frame_data)
    THEN Panic
    ELSE Ok([k \in 1..frame_count |-> ParseFrame(frame_data, frame_count, k - 1)])

----------------------------------------------------------------------------
(* rec.rs: parse_events *)

\* The arm `_` of the match on the event code.
NoEventType == [kind |-> "None"]

\* A faulty variant: the alternative ground event taken from code 2 as well.
EventTypeOf_code2(event, info) ==
    CASE event = 0 -> TouchEvent(info)
      [] event = 1 -> GroundEvent(FALSE)
      [] event = 2 \/ event = 4 -> GroundEvent(TRUE)
      [] event = 5 -> TurnEvent
      [] event = 6 -> VoltRightEvent
      [] event = 7 -> VoltLeftEvent
      [] OTHER -> NoEventType

\* The match on the event code.
EventTypeOf(event, info) ==
    CASE event = 0 -> TouchEvent(info)
      [] event = 1 -> GroundEvent(FALSE)
      [] event = 4 -> GroundEvent(TRUE)
      [] event = 5 -> TurnEvent
      [] event = 6 -> VoltRightEvent
      [] event = 7 -> VoltLeftEvent
      [] OTHER -> NoEventType

\* The loop of parse_events: left events still to read from event_data.  The
\* five reads of one event take 16 bytes, and fail with UnexpectedEof when
\* the data ends before them.
RECURSIVE ParseEventsLoop(_, _, _)
ParseEventsLoop(event_data, left, events) ==
    IF left <= 0 THEN Ok(events)
    ELSE IF Len(event_data) < 16 THEN Err("Io", 0)
    ELSE LET time_ == ReadBits(event_data, 8)
             info == ReadI16(Drop(event_data, 8))
             event == event_data[11]
         IN  IF EventTypeOf(event, info) = NoEventType THEN Err("InvalidEvent", event)
             ELSE ParseEventsLoop(Drop(event_data, 16), left - 1,
                     Append(events, [time |-> time_,
                                     event_type |-> EventTypeOf(event, info)]))

ParseEvents(event_data, event_count) == ParseEventsLoop(event_data, event_count, <<>>)

----------------------------------------------------------------------------
(* rec.rs: Replay::parse_replay and Replay::load *)

\* A faulty variant: only the low 16 bits of the marker are compared.
EorMatches_low16(expected) == expected % 65536 = EOR % 65536

\* if expected != EOR { return Err(ElmaError::EORMismatch); }
EorMatches(expected) == expected = EOR

\* The body of a player block, from its frame columns to its end-of-replay
\* marker (lines 192-200 for player one, 209-217 for player two).
ParseBody(remaining, frame_count) ==
    LET frames == ParseFrames(remaining, frame_count)
    IN  IF ~IsOk(frames) THEN [res |-> frames]
        ELSE
        LET afterFrames == Drop(remaining, 27 * frame_count)
        IN  IF Len(afterFrames) < 4 THEN [res |-> Err("Io", 0)]
            ELSE
            LET event_count == ReadI32(afterFrames)
                eventData == Drop(afterFrames, 4)
                events == ParseEvents(eventData, event_count)
            IN  IF ~IsOk(events) THEN [res |-> events]
                \* 16*event_count as usize of a negative count: split_at panics
                ELSE IF event_count < 0 THEN [res |-> Panic]
                ELSE
                LET afterEvents == Drop(eventData, 16 * event_count)
                IN  IF Len(afterEvents) < 4 THEN [res |-> Err("Io", 0)]
                    ELSE IF ~EorMatches(ReadI32(afterEvents))
                    THEN [res |-> Err("EORMismatch", 0)]
                    ELSE [res |-> Ok(0), frames |-> frames.val,
                          events |-> events.val, rest |-> Drop(afterEvents, 4)]

\* The second player block of a multi-player replay (lines 203-218).
ParseSecond(remaining) ==
    IF Len(remaining) < 4 THEN [res |-> Err("Io", 0)]
    ELSE IF Len(remaining) - 4 < 32 THEN [res |-> Panic]
    ELSE ParseBody(Drop(remaining, 36), ReadI32(remaining))

\* parse_replay on a Replay whose raw is the given bytes: Ok(the Replay), an
\* error, or a panic.
ParseReplay(raw) ==
    IF Len(raw) < 4 THEN Err("Io", 0)
    ELSE IF Len(raw) < 8 THEN Panic
    ELSE IF Len(raw) < 20 THEN Err("Io", 0)
    ELSE IF Len(raw) < 32 THEN Panic
    ELSE
    LET frame_count == ReadI32(raw)
        multi == ReadI32(Drop(raw, 8)) > 0
        flag_tag == ReadI32(Drop(raw, 12)) > 0
        link == ReadBits(Drop(raw, 16), 4)
        level == trim_string(SubSeq(raw, 21, 32))
    IN  IF ~IsOk(level) THEN level
        ELSE IF Len(raw) < 36 THEN Panic
        ELSE
        LET one == ParseBody(Drop(raw, 36), frame_count)
        IN  IF ~IsOk(one.res) THEN one.res
            ELSE
            LET two == IF multi THEN ParseSecond(one.rest)
                       ELSE [res |-> Ok(0), frames |-> <<>>, events |-> <<>>]
            IN  IF ~IsOk(two.res) THEN two.res
                ELSE Ok([tag |-> "Replay", raw |-> raw, multi |-> multi,
                         flag_tag |-> flag_tag, link |-> link, level |-> level.val,
                         frames |-> one.frames, events |-> one.events,
                         frames_2 |-> two.frames, events_2 |-> two.events])

----------------------------------------------------------------------------
(* rec.rs: write_frames, write_events, Replay::write_rec, Replay::save *)

\* One column: the bytes cells[i] of every frame i, in frame order.
\* A faulty variant: the cells of a column written last frame first.
Column_reversed(cells) == Flatten(Reverse(cells))

Column(cells) == Flatten(cells)

\* A faulty variant: the random byte is masked with 0xFE, not 0xFC.
DataByte_unmasked(frame, rnd) ==
    LET low == (IF frame.throttle THEN 1 ELSE 0) + (IF frame.right THEN 2 ELSE 0)
        kept == (rnd \div 2) * 2
    IN  IF (kept \div 2) % 2 = 1 THEN (kept \div 4) * 4 + 2 + (low % 2)
        ELSE kept + low

\* A faulty variant: the two flag bits exchanged.
DataByte_swapped(frame, rnd) ==
    (rnd \div 4) * 4 + (IF frame.throttle THEN 2 ELSE 0) + (IF frame.right THEN 1 ELSE 0)

\* The data byte of a frame: random::<u8>() & 0xFC, then the two flags.
DataByte(frame, rnd) ==
    (rnd \div 4) * 4 + (IF frame.throttle THEN 1 ELSE 0) + (IF frame.right THEN 2 ELSE 0)

\* write_frames(frame_data); random[i] is what random::<u8>() returns for frame i.
WriteFrames(frame_data, random) ==
    Column([i \in 1..Len(frame_data) |-> LET f == frame_data[i] IN WriteBits(f.bike_x)])
    \o Column([i \in 1..Len(frame_data) |-> LET f == frame_data[i] IN WriteBits(f.bike_y)])
    \o Column([i \in 1..Len(frame_data) |-> LET f == frame_data[i] IN WriteI16(f.left_x)])
    \o Column([i \in 1..Len(frame_data) |-> LET f == frame_data[i] IN WriteI16(f.left_y)])
    \o Column([i \in 1..Len(frame_data) |-> LET f == frame_data[i] IN WriteI16(f.right_x)])
    \o Column([i \in 1..Len(frame_data) |-> LET f == frame_data[i] IN WriteI16(f.right_y)])
    \o Column([i \in 1..Len(frame_data) |-> LET f == frame_data[i] IN WriteI16(f.head_x)])
    \o Column([i \in 1..Len(frame_data) |-> LET f == frame_data[i] IN WriteI16(f.head_y)])
    \o Column([i \in 1..Len(frame_data) |-> LET f == frame_data[i] IN WriteI16(f.rotation)])
    \o Column([i \in 1..Len(frame_data) |-> LET f == frame_data[i] IN <<f.left_wheel_rotation>>])
    \o Column([i \in 1..Len(frame_data) |-> LET f == frame_data[i] IN <<f.right_wheel_rotation>>])
    \o Column([i \in 1..Len(frame_data) |-> LET f == frame_data[i] IN <<DataByte(f, random[i])>>])
    \o Column([i \in 1..Len(frame_data) |-> LET f == frame_data[i] IN WriteI16(f.volume)])

\* write_u32(info as u32): the i16 is sign-extended to 32 bits.
WriteI16AsU32(info) ==
    WriteI16(info) \o (IF info < 0 THEN <<255, 255>> ELSE <<0, 0>>)

\* The two u32 written after the time of one event.
EventWords(event_type) ==
    CASE event_type.kind = "Touch" ->
            WriteI16AsU32(event_type.index) \o WriteI32(0)
      [] event_type.kind = "Ground" /\ ~event_type.alternative ->
            WriteI32(131071) \o WriteI32(1050605825)
      [] event_type.kind = "Ground" /\ event_type.alternative ->
            WriteI32(327679) \o WriteI32(1065185444)
      [] event_type.kind = "Turn" -> WriteI32(393215) \o WriteI32(1065185444)
      [] event_type.kind = "VoltRight" -> WriteI32(458751) \o WriteI32(1065185444)
      [] event_type.kind = "VoltLeft" -> WriteI32(524287) \o WriteI32(1065185444)

WriteEvents(event_data) ==
    WriteI32(Len(event_data))
    \o Flatten([i \in 1..Len(event_data) |->
                    WriteBits(event_data[i].time) \o EventWords(event_data[i].event_type)])

\* self.write_rec(multi); random is what random::<u8>() returns per frame.
WriteRec(self, multi, random) ==
    LET frames == IF multi THEN self.frames_2 ELSE self.frames
        events == IF multi THEN self.events_2 ELSE self.events
        level == string_null_pad(self.level, 12)
    IN  IF ~IsOk(level) THEN level
        ELSE Ok(WriteI32(Len(frames))
                \o WriteI32(131)
                \o WriteI32(IF self.multi THEN 1 ELSE 0)
                \o WriteI32(IF self.flag_tag THEN 1 ELSE 0)
                \o WriteBits(self.link)
                \o level.val
                \o WriteI32(0)
                \o WriteFrames(frames, random)
                \o WriteEvents(events)
                \o WriteI32(EOR))

\* A faulty variant: the second block is written whatever multi is.
SaveBytes_both(self, random, random_2) ==
    LET one == WriteRec(self, FALSE, random)
        two == WriteRec(self, TRUE, [i \in 1..Len(self.frames_2) |-> 0])
    IN  IF ~IsOk(one) THEN one
        ELSE IF ~IsOk(two) THEN two ELSE Ok(one.val \o two.val)

\* The bytes self.save(filename) hands to write_all, or its error.
SaveBytes(self, random, random_2) ==
    LET one == WriteRec(self, FALSE, random)
    IN  IF ~IsOk(one) THEN one
        ELSE IF ~self.multi THEN one
        ELSE LET two == WriteRec(self, TRUE, random_2)
             IN  IF ~IsOk(two) THEN two ELSE Ok(one.val \o two.val)

\* What File::create and write_all meet: no failure, a failure of
\* File::create, or a failure of write_all after `done` bytes.
IoOutcomes ==
    {[fail |-> "none"], [fail |-> "create"]}
    \cup {[fail |-> "write", done |-> k] : k \in {0, 4}}

\* A faulty variant: the file is created before the bytes are encoded.
SaveOutcome_create_first(bytes, prior, io) ==
    IF io.fail = "create" THEN [result |-> Err("Io", 0), dest |-> prior]
    ELSE IF ~IsOk(bytes) THEN [result |-> bytes, dest |-> FileOf(<<>>)]
    ELSE IF io.fail = "write"
    THEN [result |-> Err("Io", 0), dest |-> FileOf(Take(bytes.val, io.done))]
    ELSE [result |-> bytes, dest |-> FileOf(bytes.val)]

\* self.save(filename) when the file holds prior (or is not there), bytes
\* being what the write_rec calls gave: what save returns, with the bytes
\* written in place of the () of Ok, and what the file holds afterwards.
\* File::create empties the file, write_all fills it.
SaveOutcome(bytes, prior, io) ==
    IF ~IsOk(bytes) THEN [result |-> bytes, dest |-> prior]
    ELSE IF io.fail = "create" THEN [result |-> Err("Io", 0), dest |-> prior]
    ELSE IF io.fail = "write"
    THEN [result |-> Err("Io", 0), dest |-> FileOf(Take(bytes.val, io.done))]
    ELSE [result |-> bytes, dest |-> FileOf(bytes.val)]

----------------------------------------------------------------------------
(* rec.rs: Replay::get_time_ms *)

\* Event.time is an f64, held as its bits.  Its value in 64ths, for a value
\* that is a whole number of 64ths: sign, 11 bits of exponent, and the
\* fraction, of which such a value (below 64 in magnitude) uses the first
\* 12 bits only.
F64In64ths(bits) ==
    LET exp == (bits[1] % 128) * 16 + bits[2] \div 16
        frac == (bits[2] % 16) * 256 + bits[3]
        mag == IF exp < 1017 THEN 0
               ELSE IF exp >= 1029 THEN (4096 + frac) * 2^(exp - 1029)
               ELSE (4096 + frac) \div 2^(1029 - exp)
    IN  IF bits[1] >= 128 THEN -mag ELSE mag

\* A number of milliseconds in decimal: w ten-thousandths of a millisecond
\* and f parts of 10^-13 ms more, 0 <= f < 10^9.
Ms(w, f) == [w |-> w, f |-> f]

\* k * a
MsTimes(k, a) == Ms(k * a.w + (k * a.f) \div 10^9, (k * a.f) % 10^9)

\* a + b
MsPlus(a, b) == Ms(a.w + b.w + (a.f + b.f) \div 10^9, (a.f + b.f) % 10^9)

\* a > b
MsGreater(a, b) == a.w > b.w \/ (a.w = b.w /\ a.f > b.f)

\* a.round() as usize: to the nearest whole millisecond, halves away from
\* zero; the cast of a negative number gives 0.
RoundAsUsize(a) ==
    IF a.w < 0 THEN 0
    ELSE a.w \div 10^4 + (IF a.w % 10^4 >= 5000 THEN 1 ELSE 0)

\* 33.333, the milliseconds of one frame
FrameMs == Ms(333330, 0)

\* 2289.37728938, the milliseconds of one unit of event time, for a 64th of
\* the unit: 35.7715201465625
TickMs == Ms(357715, 201465625)

\* A faulty variant: the first event of the list is looked at.
TouchTime_first(event_data) ==
    IF event_data = <<>> THEN 0
    ELSE LET first_event == event_data[1]
         IN  IF first_event.event_type.kind = "Touch"
             THEN F64In64ths(first_event.time)
             ELSE 0

\* "First check if last event was a touch event": the match on
\* event_data.last() that sets time_1 and time_2, in 64ths.
TouchTime(event_data) ==
    IF event_data = <<>> THEN 0
    ELSE LET last_event == event_data[Len(event_data)]
         IN  IF last_event.event_type.kind = "Touch"
             THEN F64In64ths(last_event.time)
             ELSE 0

\* The tuple get_time_ms returns, with the locals time_1 and time_2.
TimeResult(ms, finished, time_1, time_2) ==
    [tag |-> "Ok", val |-> [ms |-> ms, finished |-> finished],
     time_1 |-> time_1, time_2 |-> time_2]

\* A faulty variant: the frame of slack left out of the comparison.
get_time_ms_no_slack(self) ==
    LET time_1 == TouchTime(self.events)
        time_2 == TouchTime(self.events_2)
        frames_1_len == Len(self.frames)
        frames_2_len == Len(self.frames_2)
        frame_time_max ==
            MsTimes(IF frames_1_len > frames_2_len THEN frames_1_len
                                                   ELSE frames_2_len, FrameMs)
        event_time_max == MsTimes(IF time_1 > time_2 THEN time_1 ELSE time_2, TickMs)
    IN  IF time_1 = 0 /\ time_2 = 0
        THEN TimeResult(RoundAsUsize(frame_time_max), FALSE, time_1, time_2)
        ELSE IF MsGreater(frame_time_max, event_time_max)
        THEN TimeResult(RoundAsUsize(frame_time_max), FALSE, time_1, time_2)
        ELSE TimeResult(RoundAsUsize(event_time_max), TRUE, time_1, time_2)

get_time_ms(self) ==
    LET time_1 == TouchTime(self.events)
        time_2 == TouchTime(self.events_2)
        \* Highest frame time.
        frames_1_len == Len(self.frames)
        frames_2_len == Len(self.frames_2)
        frame_time_max ==
            MsTimes(IF frames_1_len > frames_2_len THEN frames_1_len
                                                   ELSE frames_2_len, FrameMs)
        \* Set to highest event time.
        event_time_max == MsTimes(IF time_1 > time_2 THEN time_1 ELSE time_2, TickMs)
    IN  \* If neither had a touch event, return approximate frame time.
        IF time_1 = 0 /\ time_2 = 0
        THEN TimeResult(RoundAsUsize(frame_time_max), FALSE, time_1, time_2)
        \* If event difference to frame time is >1 frames of time
        ELSE IF MsGreater(frame_time_max, MsPlus(event_time_max, FrameMs))
        THEN TimeResult(RoundAsUsize(frame_time_max), FALSE, time_1, time_2)
        ELSE TimeResult(RoundAsUsize(event_time_max), TRUE, time_1, time_2)

----------------------------------------------------------------------------
(* Inputs *)

\* The bytes the string primitives are tried on: NUL, 'A', DEL, a lone
\* continuation byte, the two bytes of U+00E9 (C3 A9), a three-byte lead, 0xFF.
StrBytes == {0, 65, 127, 128, 169, 195, 226, 255}

\* The decimal digits the sampled six-digit times are made of.
SampleDigits == {0, 5, 6, 9}

TimeSamples ==
    { ((((d5 * 10 + d4) * 10 + d3) * 10 + d2) * 10 + d1) * 10 + d0 :
        d5 \in SampleDigits, d4 \in {0, 9}, d3 \in SampleDigits, d2 \in {0, 9},
        d1 \in {0, 9}, d0 \in {0, 9} }
    \cup {599999, 600000, 595999, 596000, 999999, 1000000, 1000001, 2147483647}
    \cup {-1, -59, -600, -12345, -99999, -100000, -2147483647}

TimeInputs == (0..MaxSmallTime) \cup TimeSamples

----------------------------------------------------------------------------
\* The replay variables of a run that uses no replay.
RecIdle ==
    /\ file = <<>>
    /\ tampered = NoTamper
    /\ loaded = NoResult
    /\ replay = NoReplay
    /\ saved = NoResult
    /\ timeMs = NoResult

\* The variables of save's file of a run that saves nothing.
SaveIdle ==
    /\ dest = NoFile
    /\ saved_2 = NoResult

\* The variables of the frame and event codec of a run that uses them not.
CodecIdle ==
    /\ given = NoResult
    /\ written = NoResult
    /\ parsed = NoResult

----------------------------------------------------------------------------
(* The string primitives as a state machine: a byte string and a width are  *)
(* chosen, then string_null_pad and trim_string are called on them.         *)

InitStr ==
    /\ data \in SeqsUpTo(StrBytes, MaxStrLen)
    /\ pad \in 0..MaxPad
    /\ padded = NoResult
    /\ trimmed = NoResult
    /\ trimArg = <<>>
    /\ time = 0
    /\ formatted = NoResult
    /\ RecIdle
    /\ SaveIdle
    /\ CodecIdle

\* string_null_pad(&data, pad); its argument is a &str, so data is UTF-8.
Pad ==
    /\ padded = NoResult
    /\ IsOk(FromUtf8(data))
    /\ padded' = string_null_pad(data, pad)
    /\ UNCHANGED <<data, pad, trimmed, trimArg, timeVars, recVars, saveVars, codecVars>>

\* trim_string(&padded) on the bytes string_null_pad returned.
TrimPadded ==
    /\ IsOk(padded)
    /\ trimmed = NoResult
    /\ trimArg' = padded.val
    /\ trimmed' = trim_string(padded.val)
    /\ UNCHANGED <<data, pad, padded, timeVars, recVars, saveVars, codecVars>>

\* trim_string(&data) on arbitrary bytes.
TrimData ==
    /\ padded = NoResult
    /\ trimmed = NoResult
    /\ trimArg' = data
    /\ trimmed' = trim_string(data)
    /\ UNCHANGED <<data, pad, padded, timeVars, recVars, saveVars, codecVars>>

NextStr == Pad \/ TrimPadded \/ TrimData

SpecStr == InitStr /\ [][NextStr]_vars

----------------------------------------------------------------------------
(* time_format as a state machine: a time is chosen and formatted.          *)

InitTime ==
    /\ time \in TimeInputs
    /\ formatted = NoResult
    /\ data = <<>>
    /\ pad = 0
    /\ padded = NoResult
    /\ trimmed = NoResult
    /\ trimArg = <<>>
    /\ RecIdle
    /\ SaveIdle
    /\ CodecIdle

Format ==
    /\ formatted = NoResult
    /\ formatted' = time_format(time)
    /\ UNCHANGED <<strVars, time, recVars, saveVars, codecVars>>

NextTime == Format

SpecTime == InitTime /\ [][NextTime]_vars

----------------------------------------------------------------------------
(* Replay files to load.  A file is laid out byte by byte as the game       *)
(* writes it: per player block a 36-byte header, the 13 frame columns, the  *)
(* event count, the 16-byte events and the end-of-replay marker.            *)

\* Most frames per player block of a generated file.
MaxFrames == 2

\* Most events per player block of a generated file.
MaxEvents == 2

\* The width in bytes of each of the 13 frame columns.
ColumnWidths == <<4, 4, 2, 2, 2, 2, 2, 2, 2, 1, 1, 1, 2>>

\* Byte j of column col of frame i of player block b: every column, frame and
\* block gets bytes of its own.
RawFrameByte(col, j, i, b) == (16 * col + 4 * (j - 1) + i + 64 * (b - 1)) % 256

RawFrames(nf, b) ==
    Flatten([col \in 1..13 |->
        Flatten([i \in 1..nf |->
            [j \in 1..ColumnWidths[col] |-> RawFrameByte(col, j, i, b)]])])

\* The f64 k/64 for k = 1, 2, 3, little-endian (0x3F90.., 0x3FA0.., 0x3FA8..).
RawTime(k) ==
    <<0, 0, 0, 0, 0, 0>> \o (CASE k = 1 -> <<144, 63>> [] k = 2 -> <<160, 63>>
                               [] OTHER -> <<168, 63>>)

RawTouch(k, lo, hi) == RawTime(k) \o <<lo, hi, 0, 0, 0, 0, 0, 0>>

RawGroundFalse(k) == RawTime(k) \o <<255, 255, 1, 0, 1, 249, 158, 62>>

RawOther(k, code) == RawTime(k) \o <<255, 255, code, 0, 164, 112, 125, 63>>

\* Three event lists: volt right, touch 3, ground; touch -2, turn, touch 0;
\* alternative ground, volt left, turn.
RawScript(s) ==
    CASE s = 1 -> <<RawOther(1, 6), RawTouch(2, 3, 0), RawGroundFalse(3)>>
      [] s = 2 -> <<RawTouch(1, 254, 255), RawOther(2, 5), RawTouch(3, 0, 0)>>
      [] OTHER -> <<RawOther(1, 4), RawOther(2, 7), RawOther(3, 5)>>

\* Script s, repeated when more than three events are asked for.
RawEvents(s, ne) == Flatten([i \in 1..ne |-> RawScript(s)[((i - 1) % 3) + 1]])

\* The 12-byte level field: "a.lev", the full-width "internal.lev", and
\* U+00E9 ".lev" (C3 A9 2E 6C 65 76).
RawLevel(l) ==
    CASE l = 1 -> <<97, 46, 108, 101, 118, 0, 0, 0, 0, 0, 0, 0>>
      [] l = 2 -> <<105, 110, 116, 101, 114, 110, 97, 108, 46, 108, 101, 118>>
      [] OTHER -> <<195, 169, 46, 108, 101, 118, 0, 0, 0, 0, 0, 0>>

\* frame_count, 0x83, multi, flag_tag, link 2549082363, level, reserved.
RawHeader(nf, multi, flag_tag, l) ==
    <<nf, 0, 0, 0>> \o <<131, 0, 0, 0>> \o <<IF multi THEN 1 ELSE 0, 0, 0, 0>>
    \o <<IF flag_tag THEN 1 ELSE 0, 0, 0, 0>> \o <<123, 47, 240, 151>>
    \o RawLevel(l) \o <<0, 0, 0, 0>>

\* Player block b with nf frames and the first ne events of script s.
RawBlock(nf, multi, flag_tag, l, s, ne, b) ==
    RawHeader(nf, multi, flag_tag, l) \o RawFrames(nf, b) \o <<ne, 0, 0, 0>>
    \o RawEvents(s, ne) \o <<117, 47, 73, 0>>

\* Single-player files: every frame count and every event count, the script
\* going round with their sum;
\* the files of script 2 have the full-width level name, those of script 3
\* are flag-tag replays; and one file with a non-ASCII level name.
SingleFiles ==
    { LET s == ((nf + ne) % 3) + 1
      IN  RawBlock(nf, FALSE, s = 3, IF s = 2 THEN 2 ELSE 1, s, ne, 1) :
        nf \in 0..MaxFrames, ne \in 0..MaxEvents }
    \cup { RawBlock(1, FALSE, FALSE, 3, 1, 1, 1) }

\* Multi-player files: player one has nf frames and ne events, player two
\* the MaxFrames - nf frames and MaxEvents - ne events that player one lacks;
\* ne is as many as nf, or as many as MaxEvents lacks of that.
MultiFiles ==
    UNION { { RawBlock(nf, TRUE, FALSE, 1, 1, ne, 1)
                \o RawBlock(MaxFrames - nf, TRUE, FALSE, 1, 2, MaxEvents - ne, 2) :
                ne \in {Min(nf, MaxEvents), MaxEvents - Min(nf, MaxEvents)} } :
            nf \in 0..MaxFrames }

BaseFiles == SingleFiles \cup MultiFiles

\* The bytes a byte of the file is overwritten with, or that are appended.
TamperBytes == {0, 2, 3, 8, 255}

\* The values random::<u8>() returns in a save.
RandBytes == {0, 255}

----------------------------------------------------------------------------
(* The replay codec as a state machine: a file is on disk, one of its bytes *)
(* may be overwritten (or a byte appended, or the file cut short) before it *)
(* is loaded, and the Replay that load returns is saved.                    *)

InitRec ==
    /\ file \in BaseFiles
    /\ tampered = NoTamper
    /\ loaded = NoResult
    /\ replay = NoReplay
    /\ saved = NoResult
    /\ timeMs = NoResult
    /\ data = <<>>
    /\ pad = 0
    /\ padded = NoResult
    /\ trimmed = NoResult
    /\ trimArg = <<>>
    /\ time = 0
    /\ formatted = NoResult
    /\ SaveIdle
    /\ CodecIdle

\* One byte of the file is overwritten with a byte b, or (pos = Len(file) + 1)
\* b is appended.  tampered keeps the place and the byte that was there.
Tamper ==
    /\ tampered = NoTamper
    /\ loaded = NoResult
    /\ \E pos \in 1..(Len(file) + 1), b \in TamperBytes :
        IF pos <= Len(file)
        THEN /\ file[pos] # b
             /\ file' = [file EXCEPT ![pos] = b]
             /\ tampered' = [kind |-> "set", pos |-> pos, byte |-> file[pos]]
        ELSE /\ file' = Append(file, b)
             /\ tampered' = [kind |-> "append", pos |-> pos, byte |-> b]
    /\ UNCHANGED <<loaded, replay, saved, timeMs, strVars, timeVars, saveVars, codecVars>>

\* The file is cut short: only its first k bytes are left.  tampered keeps
\* the bytes cut off.
Truncate ==
    /\ tampered = NoTamper
    /\ loaded = NoResult
    /\ \E k \in 0..(Len(file) - 1) :
        /\ file' = Take(file, k)
        /\ tampered' = [kind |-> "cut", pos |-> k, byte |-> 0, tail |-> Drop(file, k)]
    /\ UNCHANGED <<loaded, replay, saved, timeMs, strVars, timeVars, saveVars, codecVars>>

\* Replay::load(filename): the file is read whole and parsed.  loaded is the
\* outcome; the Replay of an Ok outcome is what the caller holds in replay.
Load ==
    /\ loaded = NoResult
    /\ LET r == ParseReplay(file)
       IN  /\ loaded' = (IF IsOk(r) THEN Ok(0) ELSE r)
           /\ replay' = (IF IsOk(r) THEN r.val ELSE NoReplay)
    /\ UNCHANGED <<file, tampered, saved, timeMs, strVars, timeVars, saveVars, codecVars>>

\* The random bytes of a save of self: one per frame of player one, and one
\* per frame of player two when self.multi.
Randoms(self) == [1..Len(self.frames) -> RandBytes]

Randoms_2(self) == [1..(IF self.multi THEN Len(self.frames_2) ELSE 0) -> RandBytes]

\* replay.save(filename), random and random_2 being what random::<u8>()
\* returns for the frames of player one and of player two.
Save ==
    /\ replay # NoReplay
    /\ saved = NoResult
    /\ \E random \in Randoms(replay), random_2 \in Randoms_2(replay) :
          \E bytes \in {SaveBytes(replay, random, random_2)}, io \in IoOutcomes :
              /\ saved' = SaveOutcome(bytes, dest, io).result
              /\ dest' = SaveOutcome(bytes, dest, io).dest
    /\ UNCHANGED <<file, tampered, loaded, replay, timeMs, strVars, timeVars,
                   saved_2, codecVars>>

\* replay.save(filename) once more, on the same Replay and the same file.
SaveAgain ==
    /\ saved # NoResult
    /\ saved_2 = NoResult
    /\ \E random \in Randoms(replay), random_2 \in Randoms_2(replay) :
          \E bytes \in {SaveBytes(replay, random, random_2)}, io \in IoOutcomes :
              /\ saved_2' = SaveOutcome(bytes, dest, io).result
              /\ dest' = SaveOutcome(bytes, dest, io).dest
    /\ UNCHANGED <<file, tampered, loaded, replay, saved, timeMs, strVars, timeVars,
                   codecVars>>

NextRec == Tamper \/ Truncate \/ Load \/ Save

SpecRec == InitRec /\ [][NextRec]_vars

----------------------------------------------------------------------------
(* Replay::get_time_ms as a state machine: a Replay is built (its fields    *)
(* are public) and asked for its time.                                      *)

\* The most frames of a player.
MaxTimeFrames == 4

\* The most events of player one.
MaxTimeEvents == 2

\* The latest event time, in 64ths.
MaxTick == 2

\* The bits of the f64 that is k 64ths.
F64Of64ths(k) ==
    LET a == IF k < 0 THEN -k ELSE k
        e == CHOOSE e \in 0..11 : 2^e <= a /\ a < 2^(e + 1)
        exp == 1017 + e
        frac == (a * 4096) \div 2^e - 4096
    IN  IF k = 0 THEN <<0, 0, 0, 0, 0, 0, 0, 0>>
        ELSE <<(IF k < 0 THEN 128 ELSE 0) + exp \div 16,
               (exp % 16) * 16 + frac \div 256, frac % 256, 0, 0, 0, 0, 0>>

\* The events of the lists: a Touch at -1/64 .. MaxTick/64, and a Turn after.
TimedEvents ==
    {[time |-> F64Of64ths(k), event_type |-> TouchEvent(0)] : k \in (-1)..MaxTick}
    \cup {[time |-> F64Of64ths(MaxTick + 1), event_type |-> TurnEvent]}

TimedReplays ==
    {[NewReplay(0) EXCEPT !.multi = (n2 > 0 \/ e2 # <<>>),
                          !.frames = [i \in 1..n1 |-> NewFrame],
                          !.frames_2 = [i \in 1..n2 |-> NewFrame],
                          !.events = e1, !.events_2 = e2] :
        n1 \in 0..MaxTimeFrames, n2 \in 0..MaxTimeFrames,
        e1 \in SeqsUpTo(TimedEvents, MaxTimeEvents), e2 \in SeqsUpTo(TimedEvents, 1)}

InitTimeMs ==
    /\ replay \in TimedReplays
    /\ timeMs = NoResult
    /\ file = <<>>
    /\ tampered = NoTamper
    /\ loaded = NoResult
    /\ saved = NoResult
    /\ data = <<>>
    /\ pad = 0
    /\ padded = NoResult
    /\ trimmed = NoResult
    /\ trimArg = <<>>
    /\ time = 0
    /\ formatted = NoResult
    /\ SaveIdle
    /\ CodecIdle

\* replay.get_time_ms()
GetTimeMs ==
    /\ replay # NoReplay
    /\ timeMs = NoResult
    /\ timeMs' = get_time_ms(replay)
    /\ UNCHANGED <<file, tampered, loaded, replay, saved, strVars, timeVars, saveVars, codecVars>>

NextTimeMs == GetTimeMs

SpecTimeMs == InitTimeMs /\ [][NextTimeMs]_vars

----------------------------------------------------------------------------
(* Replay::new and Replay::save as a state machine: a Replay is constructed, *)
(* the caller sets its public fields, and it is saved to a file, twice.     *)

\* The most frames of player one.
MaxSaveFrames == 2

\* The values random::<u32>() returns in Replay::new.
LinkSamples == {<<0, 0, 0, 0>>, <<151, 240, 47, 123>>}

\* Level names: none, "a.lev", "abcdefghi.lev" (13 bytes), and e-acute ".lev".
SaveLevels ==
    { <<>>, <<97, 46, 108, 101, 118>>,
      <<97, 98, 99, 100, 101, 102, 103, 104, 105, 46, 108, 101, 118>>,
      <<195, 169, 46, 108, 101, 118>> }

SaveFrames ==
    { [NewFrame EXCEPT !.throttle = TRUE, !.volume = 513],
      [NewFrame EXCEPT !.right = TRUE, !.bike_x = <<63, 128, 0, 0>>] }

\* What the file that save writes to holds before: it is not there, or it
\* holds three bytes.
PriorFiles == {NoFile, FileOf(<<1, 2, 3>>)}

InitSave ==
    /\ replay = NoReplay
    /\ dest \in PriorFiles
    /\ saved = NoResult
    /\ saved_2 = NoResult
    /\ file = <<>>
    /\ tampered = NoTamper
    /\ loaded = NoResult
    /\ timeMs = NoResult
    /\ data = <<>>
    /\ pad = 0
    /\ padded = NoResult
    /\ trimmed = NoResult
    /\ trimArg = <<>>
    /\ time = 0
    /\ formatted = NoResult
    /\ CodecIdle

\* Replay::new()
New ==
    /\ replay = NoReplay
    /\ \E link \in LinkSamples : replay' = NewReplay(link)
    /\ UNCHANGED <<file, tampered, loaded, saved, timeMs, strVars, timeVars,
                   saveVars, codecVars>>

\* The caller assigns the public fields of the new Replay.
SetFields ==
    /\ replay # NoReplay
    /\ saved = NoResult
    /\ replay = NewReplay(replay.link)
    /\ \E multi \in BOOLEAN, level \in SaveLevels,
          frames \in SeqsUpTo(SaveFrames, MaxSaveFrames),
          frames_2 \in SeqsUpTo({NewFrame}, 1) :
          replay' = [replay EXCEPT
                        !.multi = multi, !.level = level,
                        !.frames = frames, !.frames_2 = frames_2,
                        !.events = <<[time |-> F64Of64ths(1),
                                      event_type |-> TouchEvent(3)]>>,
                        !.events_2 = <<[time |-> F64Of64ths(2),
                                        event_type |-> TurnEvent]>>]
    /\ UNCHANGED <<file, tampered, loaded, saved, timeMs, strVars, timeVars,
                   saveVars, codecVars>>

NextSave == New \/ SetFields \/ Save \/ SaveAgain

SpecSave == InitSave /\ [][NextSave]_vars

----------------------------------------------------------------------------
(* write_frames, parse_frames, write_events and parse_events as a state     *)
(* machine: a list of frames or of events is written, and the bytes are     *)
(* parsed back the way parse_replay calls the parsers.                      *)

\* The most frames handed to write_frames.
MaxCodecFrames == 2

\* The most events handed to write_events.
MaxCodecEvents == 2

\* Two frames whose fields all differ, with every pair of flags.
CodecFrames ==
    { [bike_x |-> <<63, 128, 0, 1>>, bike_y |-> <<192, 0, 0, 2>>,
       left_x |-> 3, left_y |-> 0 - 4, right_x |-> 5, right_y |-> 6,
       head_x |-> 0 - 32768, head_y |-> 32767, rotation |-> 258,
       left_wheel_rotation |-> 9, right_wheel_rotation |-> 255,
       throttle |-> t, right |-> r, volume |-> 0 - 1] : t, r \in BOOLEAN }
    \cup
    { [bike_x |-> <<1, 2, 3, 4>>, bike_y |-> <<5, 6, 7, 8>>,
       left_x |-> 2313, left_y |-> 2827, right_x |-> 3341, right_y |-> 3855,
       head_x |-> 4369, head_y |-> 4883, rotation |-> 5397,
       left_wheel_rotation |-> 22, right_wheel_rotation |-> 23,
       throttle |-> t, right |-> ~t, volume |-> 6425] : t \in BOOLEAN }

\* Every event type, Touch with indexes over the whole of i16.
CodecEventTypes ==
    { TouchEvent(i) : i \in {0, 3, 0 - 2, 32767, 0 - 32768} }
    \cup { GroundEvent(FALSE), GroundEvent(TRUE), TurnEvent, VoltRightEvent,
           VoltLeftEvent }

CodecEvents ==
    { [time |-> F64Of64ths(t), event_type |-> e] : t \in {1}, e \in CodecEventTypes }
    \cup { [time |-> F64Of64ths(3), event_type |-> TouchEvent(3)] }

InitCodec ==
    /\ CodecIdle
    /\ SaveIdle
    /\ RecIdle
    /\ data = <<>>
    /\ pad = 0
    /\ padded = NoResult
    /\ trimmed = NoResult
    /\ trimArg = <<>>
    /\ time = 0
    /\ formatted = NoResult

\* write_frames(&frames)
WriteFramesCall ==
    /\ given = NoResult
    /\ \E frame_data \in SeqsUpTo(CodecFrames, MaxCodecFrames) :
          \E random \in [1..Len(frame_data) -> RandBytes] :
              /\ given' = [tag |-> "Frames", list |-> frame_data, random |-> random]
              /\ written' = Ok(WriteFrames(frame_data, random))
    /\ UNCHANGED <<parsed, recVars, saveVars, strVars, timeVars>>

\* parse_frames(frame_data, frame_count) on what write_frames gave
ParseFramesCall ==
    /\ given.tag = "Frames"
    /\ parsed = NoResult
    /\ parsed' = ParseFrames(written.val, Len(given.list))
    /\ UNCHANGED <<given, written, recVars, saveVars, strVars, timeVars>>

\* write_events(&events)
WriteEventsCall ==
    /\ given = NoResult
    /\ \E event_data \in SeqsUpTo(CodecEvents, MaxCodecEvents) :
          /\ given' = [tag |-> "Events", list |-> event_data]
          /\ written' = Ok(WriteEvents(event_data))
    /\ UNCHANGED <<parsed, recVars, saveVars, strVars, timeVars>>

\* parse_events(event_data, event_count) on what write_events gave: the
\* count is read from the first four bytes, the events from the rest.
ParseEventsCall ==
    /\ given.tag = "Events"
    /\ parsed = NoResult
    /\ parsed' = ParseEvents(Drop(written.val, 4), ReadI32(Take(written.val, 4)))
    /\ UNCHANGED <<given, written, recVars, saveVars, strVars, timeVars>>

NextCodec == WriteFramesCall \/ ParseFramesCall \/ WriteEventsCall \/ ParseEventsCall

SpecCodec == InitCodec /\ [][NextCodec]_vars

----------------------------------------------------------------------------
(* Claims about the string primitives (checked under SpecStr)               *)

\* The bytes of s before its first 0x00 (all of s when it holds none).
BeforeNul(s) ==
    IF \E i \in 1..Len(s) : s[i] = 0
    THEN LET z == CHOOSE i \in 1..Len(s) : s[i] = 0 /\ \A j \in 1..(i-1) : s[j] # 0
         IN  [i \in 1..(z-1) |-> s[i]]
    ELSE s

\* trim_string was called on the bytes string_null_pad returned.
PaddedThenTrimmed == IsOk(padded) /\ trimmed # NoResult

\* C3 (as claimed): for every ASCII string s and width n with len(s) <= n,
\* trim_string(string_null_pad(s, n)) is Ok(s), also when s holds a 0x00.
C3_RoundTripAnyAscii ==
    PaddedThenTrimmed => trimmed = Ok(data)

\* C3 (amended): for every ASCII string s and width n with len(s) <= n,
\* trim_string(string_null_pad(s, n)) is Ok of the bytes of s before its first
\* 0x00; so it is Ok(s) exactly for the strings that hold no 0x00.
C3_RoundTripUpToNul ==
    PaddedThenTrimmed =>
        /\ trimmed = Ok(BeforeNul(data))
        /\ (trimmed = Ok(data)) <=> (0 \notin Range(data))

\* C3 witness: a string with a 0x00 after an ordinary character was padded and
\* trimmed, and came back cut at the 0x00.
C3_Witness ==
    /\ PaddedThenTrimmed
    /\ Len(data) >= 2 /\ data[1] # 0 /\ data[2] = 0
    /\ trimmed = Ok(<<data[1]>>)

\* string_null_pad was called with an ASCII string longer than the width.
PadTooShortCase ==
    padded # NoResult /\ (\A i \in 1..Len(data) : data[i] <= 127) /\ Len(data) > pad

\* C4 (as claimed): for every ASCII string s and width n with len(s) > n,
\* string_null_pad(s, n) fails with PaddingTooShort(len(s) - n), a positive number.
C4_DeficitPositive ==
    PadTooShortCase => padded = Err("PaddingTooShort", Len(data) - pad)

\* C4 (amended): for every ASCII string s and width n with len(s) > n,
\* string_null_pad(s, n) fails with PaddingTooShort(n - len(s)), a negative number.
C4_DeficitNegative ==
    PadTooShortCase =>
        /\ padded = Err("PaddingTooShort", pad - Len(data))
        /\ padded.arg < 0

\* C4 witness: a three-byte ASCII string was padded to width 1.
C4_Witness ==
    /\ PadTooShortCase
    /\ Len(data) = 3 /\ pad = 1
    /\ IsErr(padded, "PaddingTooShort")

\* C5 (as claimed): trim_string returns exactly the bytes before the first 0x00
\* of its input, fails with NonASCII whenever one of those bytes is above 0x7F,
\* and the bytes after the first 0x00 never change the result.
C5_NonAsciiRejected ==
    trimmed # NoResult =>
        LET p == BeforeNul(trimArg)
        IN  IF \E i \in 1..Len(p) : p[i] > 127
            THEN trimmed = Err("NonASCII", 0)
            ELSE trimmed = Ok(p)

\* C5 (amended): with p the bytes before the first 0x00 of its input,
\* trim_string returns Ok(p) whenever it succeeds, and it succeeds for every
\* all-ASCII p and also for a p that holds well-formed multi-byte UTF-8 (C3 A9);
\* when it fails, the error is StringFromUtf8(k), never NonASCII, where the
\* byte of p at offset k (k < len(p)) is above 0x7F; the bytes after the
\* first 0x00 never change the result.
C5_Utf8Rejected ==
    trimmed # NoResult =>
        LET p == BeforeNul(trimArg)
        IN  /\ trimmed.tag \in {"Ok", "Err"}
            /\ IsOk(trimmed) => trimmed.val = p
            /\ (\A i \in 1..Len(p) : p[i] <= 127) => IsOk(trimmed)
            /\ p = <<195, 169>> => IsOk(trimmed)
            /\ trimmed.tag = "Err" =>
                /\ trimmed.kind = "StringFromUtf8"
                /\ trimmed.arg \in 0..(Len(p) - 1)
                /\ p[trimmed.arg + 1] > 127
            /\ trimmed = trim_string(p)

\* C5 witness: trim_string was given a byte above 0x7F before the first 0x00,
\* with further bytes after that 0x00, and failed with StringFromUtf8(0).
C5_Witness ==
    /\ Len(trimArg) = 3 /\ trimArg[1] = 255 /\ trimArg[2] = 0 /\ trimArg[3] # 0
    /\ trimmed = Err("StringFromUtf8", 0)

----------------------------------------------------------------------------
(* Claims about time_format (checked under SpecTime)                        *)

\* C6 (as claimed): time_format(599999) and time_format(600000) each return
\* Ok("59:59,99").
C6_ClampedAtSixDigits ==
    (time \in {599999, 600000} /\ formatted # NoResult) => formatted = Ok(MaxTimeString)

\* C6 (amended): time_format(599999) and time_format(600000) each fail with
\* InvalidTimeFormat (599999 has seconds digit 9, 600000 has minutes digit 6);
\* the clamp to "59:59,99" starts at the seven-digit time 1000000.
C6_SixDigitsRejected ==
    /\ (time \in {599999, 600000} /\ formatted # NoResult)
            => formatted = Err("InvalidTimeFormat", 0)
    /\ (time = 1000000 /\ formatted # NoResult) => formatted = Ok(MaxTimeString)

\* C6 witness: time_format(599999) has returned an error.
C6_Witness == time = 599999 /\ formatted.tag = "Err"

\* Digit i (0 = least significant) of t >= 0.
Digit(t, i) ==
    LET p == CASE i = 0 -> 1 [] i = 1 -> 10 [] i = 2 -> 100
               [] i = 3 -> 1000 [] i = 4 -> 10000 [] i = 5 -> 100000
    IN  (t \div p) % 10

\* The reference of C7.
RefTimeFormat(t) ==
    IF t > 999999 THEN Ok(MaxTimeString)
    ELSE IF Digit(t, 5) > 5 \/ Digit(t, 3) > 5 THEN Err("InvalidTimeFormat", 0)
    ELSE Ok(<<48 + Digit(t, 5), 48 + Digit(t, 4), 58,
              48 + Digit(t, 3), 48 + Digit(t, 2), 44,
              48 + Digit(t, 1), 48 + Digit(t, 0)>>)

\* The digits of a formatted time read back as a number.
ReadBack(f) ==
    ((((( (f[1] - 48) * 10 + (f[2] - 48)) * 10 + (f[4] - 48)) * 10
        + (f[5] - 48)) * 10 + (f[7] - 48)) * 10) + (f[8] - 48)

\* C7: for every t >= 0, time_format(t) is Ok("59:59,99") when t > 999999, else
\* InvalidTimeFormat when the tens digit of the minutes or of the seconds is
\* above 5, else the digits of t laid out as MM:SS,HH, which read back give t.
C7_MatchesReference ==
    (time >= 0 /\ formatted # NoResult) =>
        /\ formatted = RefTimeFormat(time)
        /\ (IsOk(formatted) /\ time <= 999999) => ReadBack(formatted.val) = time

\* C7 witness: a six-digit time with both tens digits at 5 was formatted.
C7_Witness == time = 595999 /\ formatted = Ok(<<53, 57, 58, 53, 57, 44, 57, 57>>)

----------------------------------------------------------------------------
(* Claims about the replay codec (checked under SpecRec)                    *)

\* The file as it was before Tamper.
Original ==
    CASE tampered.kind = "set" -> [file EXCEPT ![tampered.pos] = tampered.byte]
      [] tampered.kind = "append" -> SubSeq(file, 1, Len(file) - 1)
      [] tampered.kind = "cut" -> file \o tampered.tail
      [] OTHER -> file

\* The layout of the player block that starts after the first s bytes of f:
\* its frame and event counts, the offsets of its frame columns, of its first
\* event and of its end-of-replay marker, and the offset of its end.
Layout(f, s) ==
    LET fc == f[s + 1] + 256 * f[s + 2]
        ec == f[s + 36 + 27 * fc + 1] + 256 * f[s + 36 + 27 * fc + 2]
    IN  [fc |-> fc, ec |-> ec, frames |-> s + 36,
         events |-> s + 36 + 27 * fc + 4,
         eor |-> s + 36 + 27 * fc + 4 + 16 * ec,
         end |-> s + 36 + 27 * fc + 4 + 16 * ec + 4]

\* The offsets at which the player blocks of f start (f a well-formed file).
BlockStarts(f) ==
    IF f[9] + f[10] + f[11] + f[12] > 0 /\ f[12] < 128
    THEN {0, Layout(f, 0).end}
    ELSE {0}

\* The offset at which the player blocks of f end.
BlocksEnd(f) ==
    LET one == Layout(f, 0).end
    IN  IF Cardinality(BlockStarts(f)) = 2 THEN Layout(f, one).end ELSE one

\* Position i of f holds the data byte of a frame.
IsDataByte(f, i) ==
    \E s \in BlockStarts(f) :
        LET l == Layout(f, s)
        IN  i > l.frames + 24 * l.fc /\ i <= l.frames + 25 * l.fc

\* Position i of f holds the code byte of an event.
IsEventCode(f, i) ==
    \E s \in BlockStarts(f) :
        LET l == Layout(f, s)
        IN  \E e \in 0..(l.ec - 1) : i = l.events + 16 * e + 11

\* Position i of f holds a byte of an end-of-replay marker.
IsEorByte(f, i) ==
    \E s \in BlockStarts(f) : i > Layout(f, s).eor /\ i <= Layout(f, s).end

\* The file was loaded into a Replay and that Replay saved without error.
LoadedAndSaved == loaded = Ok(0) /\ IsOk(saved)

BlockKept(b, out, s) ==
    LET l == Layout(b, s)
        same(i) == out[i] = b[i]
    IN  \* frame_count
        /\ \A i \in (s + 1)..(s + 4) : same(i)
        \* the frame columns, but for the upper six bits of the data bytes
        /\ \A i \in (l.frames + 1)..(l.frames + 27 * l.fc) :
            IF i > l.frames + 24 * l.fc /\ i <= l.frames + 25 * l.fc
            THEN out[i] % 4 = b[i] % 4
            ELSE same(i)
        \* event_count
        /\ \A i \in (l.events - 3)..l.events : same(i)
        /\ \A e \in 0..(l.ec - 1) :
            LET o == l.events + 16 * e
            IN  \* the time
                /\ \A i \in (o + 1)..(o + 8) : same(i)
                /\ IF b[o + 11] = 0
                   THEN \* a Touch: its index, sign-extended over code and pad
                        /\ same(o + 9) /\ same(o + 10)
                        /\ out[o + 11] = (IF b[o + 10] >= 128 THEN 255 ELSE 0)
                        /\ out[o + 12] = out[o + 11]
                        /\ \A i \in (o + 13)..(o + 16) : out[i] = 0
                   ELSE \* any other event: its code, the rest fixed numbers
                        /\ same(o + 11)
                        /\ out[o + 9] = 255 /\ out[o + 10] = 255 /\ out[o + 12] = 0
                        /\ SubSeq(out, o + 13, o + 16) =
                             (IF b[o + 11] = 1 THEN <<1, 249, 158, 62>>
                                               ELSE <<164, 112, 125, 63>>)
        \* the end-of-replay marker
        /\ \A i \in (l.eor + 1)..l.end : same(i)

ValidCodes == {0, 1, 4, 5, 6, 7}

\* The event type claimed for a code byte and an info word.
ClaimedType(code, lo, hi) ==
    CASE code = 0 -> [kind |-> "Touch",
                      index |-> IF hi >= 128 THEN lo + 256 * hi - 65536 ELSE lo + 256 * hi]
      [] code = 1 -> [kind |-> "Ground", alternative |-> FALSE]
      [] code = 4 -> [kind |-> "Ground", alternative |-> TRUE]
      [] code = 5 -> [kind |-> "Turn"]
      [] code = 6 -> [kind |-> "VoltRight"]
      [] code = 7 -> [kind |-> "VoltLeft"]

\* The events of the Replay are those of the block at offset s of f, by type.
EventsDecoded(f, s, events) ==
    LET l == Layout(f, s)
    IN  /\ Len(events) = l.ec
        /\ \A e \in 1..l.ec :
            LET o == l.events + 16 * (e - 1)
            IN  /\ f[o + 11] \in ValidCodes
                /\ events[e].event_type = ClaimedType(f[o + 11], f[o + 9], f[o + 10])

C9_MarkerEnforced ==
    ( /\ loaded # NoResult
      /\ tampered.kind = "set"
      /\ IsEorByte(Original, tampered.pos)
      /\ IsOk(ParseReplay(Original)) )
    => loaded = Err("EORMismatch", 0)

\* C9 witness: the last byte of the marker of player two was overwritten and
\* load failed with EORMismatch.
C9_Witness ==
    /\ tampered.kind = "set"
    /\ Cardinality(BlockStarts(Original)) = 2
    /\ tampered.pos = Len(Original)
    /\ loaded = Err("EORMismatch", 0)

----------------------------------------------------------------------------
(* Claims about get_time_ms (checked under SpecTimeMs)                      *)

\* The time, in 64ths, of the Touch event that comes last in a list, other
\* events after it or not; 0 when the list has no Touch event.
LatestTouch(event_data) ==
    LET touches == {i \in 1..Len(event_data) : event_data[i].event_type.kind = "Touch"}
    IN  IF touches = {} THEN 0
        ELSE F64In64ths(event_data[CHOOSE i \in touches : \A j \in touches : j <= i].time)

\* The time of the last event of a list if that event is a Touch, else 0.
LastIfTouch(event_data) ==
    LET n == Len(event_data)
    IN  IF n > 0 /\ event_data[n].event_type = TouchEvent(0)
        THEN F64In64ths(event_data[n].time)
        ELSE 0

\* The touch time get_time_ms went by: the larger of time_1 and time_2.
TouchTimeUsed == Max(timeMs.time_1, timeMs.time_2)

\* C2 (as claimed): the touch time get_time_ms uses is the time of the latest
\* Touch event anywhere in events or events_2, also when other events follow
\* that Touch in its list; a list counts as 0 only when it has no Touch.
C2_LatestTouchAnywhere ==
    timeMs # NoResult =>
        TouchTimeUsed = Max(LatestTouch(replay.events), LatestTouch(replay.events_2))

\* C2 (amended): the touch time get_time_ms uses is the larger of the touch
\* times of the two lists, the touch time of a list being the time of its
\* last event when that event is a Touch, and 0 when the list is empty or
\* ends with another event; a finished result is that time in milliseconds.
C2_LastEventTouch ==
    timeMs # NoResult =>
        /\ timeMs.time_1 = LastIfTouch(replay.events)
        /\ timeMs.time_2 = LastIfTouch(replay.events_2)
        /\ timeMs.val.finished =>
              timeMs.val.ms = RoundAsUsize(MsTimes(
                  Max(LastIfTouch(replay.events), LastIfTouch(replay.events_2)), TickMs))

\* C2 witness: player one touched at 2/64 and turned after; the touch is not
\* the last event, and the time is that of the frames, not finished.
C2_Witness ==
    /\ timeMs # NoResult
    /\ Len(replay.events) = 2
    /\ replay.events[1].event_type = TouchEvent(0)
    /\ F64In64ths(replay.events[1].time) = 2
    /\ replay.events[2].event_type = TurnEvent
    /\ replay.events_2 = <<>>
    /\ Len(replay.frames) = 1
    /\ timeMs.val = [ms |-> 33, finished |-> FALSE]

\* t_frm and t_evt of the result in timeMs
T_frm == MsTimes(Max(Len(replay.frames), Len(replay.frames_2)), FrameMs)

T_evt == MsTimes(TouchTimeUsed, TickMs)

FrameResult == [ms |-> RoundAsUsize(T_frm), finished |-> FALSE]

EventResult == [ms |-> RoundAsUsize(T_evt), finished |-> TRUE]

FramesRunOn == MsGreater(T_frm, MsPlus(T_evt, FrameMs))

\* C10 (as claimed): get_time_ms returns (round(t_frm), false) when the touch
\* time is 0 or when t_frm > t_evt + 33.333, and (round(t_evt), true) in
\* every other case; so finished implies t_frm <= t_evt + 33.333.
C10_ZeroTouchTimeUnfinished ==
    timeMs # NoResult =>
        /\ timeMs.val = (IF TouchTimeUsed = 0 \/ FramesRunOn THEN FrameResult
                                                             ELSE EventResult)
        /\ timeMs.val.finished => ~FramesRunOn

\* C10 (amended): get_time_ms returns (round(t_frm), false) when the touch
\* times of both lists are 0 or when t_frm > t_evt + 33.333, and
\* (round(t_evt), true) in every other case (also when the larger touch time
\* is 0 and the other one is negative); so finished implies
\* t_frm <= t_evt + 33.333.
C10_BothZeroUnfinished ==
    timeMs # NoResult =>
        /\ timeMs.val = (IF (timeMs.time_1 = 0 /\ timeMs.time_2 = 0) \/ FramesRunOn
                         THEN FrameResult ELSE EventResult)
        /\ timeMs.val.finished => ~FramesRunOn

\* C10 witness: frames run on after the touch; a touch at 1/64 (35.77 ms)
\* and three frames (99.999 ms) give (100, false).
C10_Witness ==
    /\ timeMs # NoResult
    /\ timeMs.time_1 = 1 /\ timeMs.time_2 = 0
    /\ Len(replay.frames) = 3 /\ Len(replay.frames_2) = 0
    /\ timeMs.val = [ms |-> 100, finished |-> FALSE]

\* The finished case is reached as well: a touch at 2/64 (71.54 ms) and
\* three frames give (72, true).
C10_WitnessFinished ==
    /\ timeMs # NoResult
    /\ TouchTimeUsed = 2
    /\ Max(Len(replay.frames), Len(replay.frames_2)) = 3
    /\ timeMs.val = [ms |-> 72, finished |-> TRUE]

----------------------------------------------------------------------------
(* Further claims about time_format (checked under SpecTime)                *)

\* C19: for every i32 t, negative ones included, for which time_format
\* returns Ok, the result is eight characters: ':' at index 2, ',' at index
\* 5, and a decimal digit '0'..'9' at each of the six other positions.
C19_DigitsAroundSeparators ==
    IsOk(formatted) =>
        /\ Len(formatted.val) = 8
        /\ formatted.val[3] = 58
        /\ formatted.val[6] = 44
        /\ \A i \in {1, 2, 4, 5, 7, 8} : formatted.val[i] \in 48..57

----------------------------------------------------------------------------
(* Further claims about the replay codec (checked under SpecRec)            *)

\* The block at offset s of the bytes f holds these frames and events: their
\* counts, the bike_x of every frame, the time of every event, and the
\* end-of-replay marker after the last event.
BlockHolds(f, s, frames, events) ==
    LET l == Layout(f, s)
    IN  /\ Len(f) >= s + 36
        /\ l.fc = Len(frames)
        /\ Len(f) >= l.events
        /\ l.ec = Len(events)
        /\ Len(f) >= l.end
        /\ \A i \in 1..l.fc :
              SubSeq(f, l.frames + 4 * i - 3, l.frames + 4 * i) = Reverse(frames[i].bike_x)
        /\ \A e \in 1..l.ec :
              SubSeq(f, l.events + 16 * e - 15, l.events + 16 * e - 8)
                  = Reverse(events[e].time)
        /\ SubSeq(f, l.eor + 1, l.end) = <<117, 47, 73, 0>>

\* The multi field of the first header of f is set.
MultiFieldSet(f) == f[12] < 128 /\ f[9] + f[10] + f[11] + f[12] > 0

\* Position i of f is in the header of the second block, after frame_count.
InSecondHeader(f, i) ==
    LET two == Layout(f, 0).end
    IN  i > two + 4 /\ i <= two + 36

\* C11: save emits the player block of (frames, events), followed by a second
\* complete player block of (frames_2, events_2) exactly when multi is true;
\* load parses a second block into frames_2 and events_2 exactly when the
\* multi field of the first block is set, and of the 36-byte header of the
\* second block it takes the frame_count only: the other 32 bytes change
\* nothing of what is loaded.
C11_SecondBlockIffMulti ==
    /\ IsOk(saved) =>
        /\ BlockHolds(saved.val, 0, replay.frames, replay.events)
        /\ IF replay.multi
           THEN LET two == Layout(saved.val, 0).end
                IN  /\ BlockHolds(saved.val, two, replay.frames_2, replay.events_2)
                    /\ Len(saved.val) = Layout(saved.val, two).end
           ELSE Len(saved.val) = Layout(saved.val, 0).end
    /\ loaded = Ok(0) =>
        /\ replay.multi = MultiFieldSet(file)
        /\ BlockHolds(file, 0, replay.frames, replay.events)
        /\ IF MultiFieldSet(file)
           THEN BlockHolds(file, Layout(file, 0).end, replay.frames_2, replay.events_2)
           ELSE replay.frames_2 = <<>> /\ replay.events_2 = <<>>
    /\ ( /\ loaded # NoResult
         /\ tampered.kind = "set"
         /\ MultiFieldSet(Original)
         /\ InSecondHeader(Original, tampered.pos)
         /\ IsOk(ParseReplay(Original)) )
       => /\ loaded = Ok(0)
          /\ [replay EXCEPT !.raw = <<>>] = [ParseReplay(Original).val EXCEPT !.raw = <<>>]

\* C11 witness: a byte of the link in the header of player two was
\* overwritten, the file was loaded with both players' frames and events,
\* and it was saved as two blocks.
C11_Witness ==
    /\ tampered.kind = "set"
    /\ IsOk(saved)
    /\ loaded = Ok(0)
    /\ replay.multi
    /\ Len(replay.frames) = 1 /\ Len(replay.frames_2) = 1
    /\ Len(replay.events) = 1 /\ Len(replay.events_2) = 1
    /\ tampered.pos = Layout(Original, 0).end + 17
    /\ Len(saved.val) = 2 * (36 + 27 + 4 + 16 + 4)

\* C17: parsing any byte content ends with Ok(Replay) or with an ElmaError;
\* it never aborts on an out-of-range slice split, also when the content is
\* shorter than the 36-byte header or than the sizes its frame_count and
\* event_count announce, or carries a negative frame_count or event_count.
C17_LoadNeverAborts == loaded # Panic

----------------------------------------------------------------------------
(* Claims about Replay::new and Replay::save (checked under SpecSave) *)

\* The Replay the test rec_default_values expects of Replay::new().
DefaultReplay == NewReplay(<<0, 0, 0, 0>>)

\* C12 (as claimed): the Replay that Replay::new constructs has multi =
\* false, flag_tag = false, link = 0, an empty level name, and no frames and
\* no events for either player.
C12_NewReplayDefaults ==
    [][(replay = NoReplay /\ replay' # NoReplay) => replay' = DefaultReplay]_vars

\* Both saves of the Replay returned Ok.
SavedTwice == IsOk(saved) /\ IsOk(saved_2)

\* C15: any two saves of the same, unchanged Replay give outputs of equal
\* length that agree on every byte, except possibly on the upper six bits of
\* the frame data bytes.
C15_SavesAgreeButRandomBits ==
    SavedTwice =>
        /\ Len(saved.val) = Len(saved_2.val)
        /\ BlockStarts(saved.val) = BlockStarts(saved_2.val)
        /\ \A i \in 1..Len(saved.val) :
              \/ saved.val[i] = saved_2.val[i]
              \/ /\ IsDataByte(saved.val, i)
                 /\ saved.val[i] % 4 = saved_2.val[i] % 4

\* C15 witness: a multi replay with two frames of player one was saved
\* twice, and the two outputs differ in a frame data byte of each player.
C15_Witness ==
    /\ SavedTwice
    /\ replay.multi
    /\ Len(replay.frames) = 2 /\ Len(replay.frames_2) = 1
    /\ saved.val[36 + 24 * 2 + 1] # saved_2.val[36 + 24 * 2 + 1]
    /\ saved.val[Layout(saved.val, 0).end + 36 + 24 + 1]
          # saved_2.val[Layout(saved.val, 0).end + 36 + 24 + 1]

\* The error string_null_pad gives for the level name of self, if any.
EncodeError(self) ==
    IF \E i \in 1..Len(self.level) : self.level[i] > 127
    THEN Err("NonASCII", 0)
    ELSE IF Len(self.level) > 12
    THEN Err("PaddingTooShort", 12 - Len(self.level))
    ELSE NoResult

\* C18: when save fails while encoding (a level name longer than 12 bytes
\* gives PaddingTooShort, a non-ASCII one gives NonASCII), the error is
\* returned before the destination file is created or truncated, for single
\* and multi replays alike: the file keeps its prior content, or stays
\* absent, and the Replay is unchanged.
C18_EncodeErrorLeavesFile ==
    [][ /\ (saved' # saved => /\ EncodeError(replay) # NoResult
                                 => /\ saved' = EncodeError(replay)
                                    /\ dest' = dest
                                    /\ replay' = replay
                              /\ EncodeError(replay) = NoResult
                                 => ~(IsErr(saved', "NonASCII")
                                      \/ IsErr(saved', "PaddingTooShort")))
        /\ (saved_2' # saved_2 => (EncodeError(replay) # NoResult
                                     => /\ saved_2' = EncodeError(replay)
                                        /\ dest' = dest
                                        /\ replay' = replay)) ]_vars

\* C18 witness: a multi replay with a 13-byte level name and a replay with a
\* non-ASCII level name were saved over a file of three bytes; the save
\* returned the error and the three bytes are still there.
C18_Witness ==
    /\ saved = Err("PaddingTooShort", 0 - 1)
    /\ saved_2 = saved
    /\ replay.multi
    /\ Len(replay.frames) = 1
    /\ dest = FileOf(<<1, 2, 3>>)

\* C18 witness for the non-ASCII name of a single replay, the file absent.
C18_WitnessNonASCII ==
    /\ saved = Err("NonASCII", 0)
    /\ ~replay.multi
    /\ dest = NoFile

----------------------------------------------------------------------------
(* Claims about the frame and event codecs (checked under SpecCodec) *)

\* The fields the columns hold, in order; "data" holds the two flags.
ColumnFields ==
    <<"bike_x", "bike_y", "left_x", "left_y", "right_x", "right_y",
      "head_x", "head_y", "rotation", "left_wheel_rotation",
      "right_wheel_rotation", "data", "volume">>

RECURSIVE WidthBefore(_)
\* The widths of the columns before column k, summed.
WidthBefore(k) == IF k = 1 THEN 0 ELSE WidthBefore(k - 1) + ColumnWidths[k - 1]

\* The bytes of frame i (from 1) in column k of the n frames in bytes.
Cell(bytes, n, k, i) ==
    LET at == n * WidthBefore(k) + ColumnWidths[k] * (i - 1)
    IN  SubSeq(bytes, at + 1, at + ColumnWidths[k])

\* The little-endian bytes of field k of frame f; of the data byte, the two
\* low bits.
FieldBytes(f, k) ==
    CASE k \in {1, 2} -> Reverse(f[ColumnFields[k]])
      [] k \in 3..9 \cup {13} ->
            LET v == f[ColumnFields[k]]
                u == IF v < 0 THEN v + 65536 ELSE v
            IN  <<u % 256, u \div 256>>
      [] k \in {10, 11} -> <<f[ColumnFields[k]]>>
      [] k = 12 -> <<(IF f.throttle THEN 1 ELSE 0) + (IF f.right THEN 2 ELSE 0)>>

\* The cell holds the field: all its bytes, or the low two bits of the data byte.
CellHolds(cell, f, k) ==
    IF k = 12 THEN cell[1] % 4 = FieldBytes(f, k)[1]
    ELSE cell = FieldBytes(f, k)

\* C13: write_frames emits 27 * n bytes for n frames, in 13 columns in the
\* order bike.x, bike.y (4n bytes each), left_wheel.x, left_wheel.y,
\* right_wheel.x, right_wheel.y, head.x, head.y, rotation (2n each),
\* left_wheel_rotation, right_wheel_rotation, data (n each), volume (2n),
\* the cells of a column in frame order; parse_frames reads field k of frame
\* i from the same column at the same offset.
C13_FrameColumns ==
    given.tag = "Frames" =>
        LET n == Len(given.list)
        IN  /\ Len(written.val) = 27 * n
            /\ \A i \in 1..n, k \in 1..13 :
                  CellHolds(Cell(written.val, n, k, i), given.list[i], k)
            /\ parsed # NoResult =>
                  /\ IsOk(parsed)
                  /\ Len(parsed.val) = n
                  /\ \A i \in 1..n, k \in 1..13 :
                        CellHolds(Cell(written.val, n, k, i), parsed.val[i], k)

\* C13 witness: two frames that differ in every field were written to 54
\* bytes and parsed back.
C13_Witness ==
    /\ given.tag = "Frames"
    /\ IsOk(parsed)
    /\ Len(given.list) = 2
    /\ Len(written.val) = 54
    /\ \A k \in 1..13 : Cell(written.val, 2, k, 1) # Cell(written.val, 2, k, 2)

\* C14: parse_frames(write_frames(F), len F) = F for every choice of the
\* random upper six bits of the data bytes: throttle is carried by bit 0 of
\* the data byte and right by bit 1.
C14_FramesRoundTrip ==
    given.tag = "Frames" =>
        /\ \A i \in 1..Len(given.list) :
              LET d == Cell(written.val, Len(given.list), 12, i)[1]
              IN  /\ given.list[i].throttle <=> d % 2 = 1
                  /\ given.list[i].right <=> (d \div 2) % 2 = 1
                  /\ d \div 4 = given.random[i] \div 4
        /\ parsed # NoResult => parsed = Ok(given.list)

\* C14 witness: a frame with throttle and without right, and one with right
\* and without throttle, were written with all six random bits set and with
\* none set, and parsed back.
C14_Witness ==
    /\ given.tag = "Frames"
    /\ IsOk(parsed)
    /\ Len(given.list) = 2
    /\ given.list[1].throttle /\ ~given.list[1].right
    /\ ~given.list[2].throttle /\ given.list[2].right
    /\ given.list[1].head_x < 0
    /\ given.random = <<255, 0>>

\* C16 (as claimed): for every list of events E, Touch events with any i16
\* index included, negative ones too, write_events(E) is 4 + 16 * len(E)
\* bytes, and parse_events on them returns Ok with exactly E.
C16_EventsRoundTrip ==
    given.tag = "Events" =>
        /\ Len(written.val) = 4 + 16 * Len(given.list)
        /\ parsed # NoResult => parsed = Ok(given.list)

====
